---- MODULE Spec2Model ----
(***************************************************************************)
(* xunmi: a record normalizer and document builder (src/src/input.rs), a   *)
(* coordinator thread that owns the index writer and drains an unbounded   *)
(* channel of Input requests (src/src/indexer.rs), the reader snapshot of  *)
(* the Indexer, and the IndexUpdater of src/src/updater.rs.                *)
(***************************************************************************)
EXTENDS Naturals, Sequences, FiniteSets, TLC

\* ------------------------------------------------------------------ bounds
\* Requests sent over the channel in one behaviour.
MaxReq == 3
\* Writer calls (commit, delete_all_documents) that return Err in one behaviour.
MaxFail == 1
\* Calls made on the IndexUpdater of updater.rs in one behaviour.
MaxCalls == 2

\* ----------------------------------------------------- JSON values, records
\* serde_json::Value, restricted to the variants the code matches on.
JStr(s) == [k |-> "str", s |-> s, n |-> 0, a |-> <<>>]
JNum(n) == [k |-> "num", s |-> "", n |-> n, a |-> <<>>]
JArr(a) == [k |-> "arr", s |-> "", n |-> 0, a |-> a]

\* Field names in the iteration order of serde_json::Map (a BTreeMap: sorted keys).
FieldOrder == <<"id", "sid", "title">>

\* The keys of a JsonObject in iteration order.
Keys(obj) == SelectSeq(FieldOrder, LAMBDA f : f \in DOMAIN obj)

\* Map::remove_entry(k) and Map::insert(k, v).
remove_entry(obj, key) == [f \in (DOMAIN obj) \ {key} |-> obj[f]]
insert(obj, key, v) == [f \in (DOMAIN obj) \cup {key} |-> IF f = key THEN v ELSE obj[f]]

\* Number::to_string and str::parse::<Number> on the numbers of the model.
NumText == <<"1", "2", "3">>
to_string(n) == NumText[n]
IsNumeric(s) == \E n \in 1..Len(NumText) : NumText[n] = s
parse(s) == CHOOSE n \in 1..Len(NumText) : NumText[n] = s

\* The length of the input prefix the parse error message quotes.
PrefixLen == 20

\* One step of the mapping loop: a present source key is removed and its value
\* inserted under the target key.
MapOne(obj, pair) ==
    IF pair[1] \in DOMAIN obj
    THEN insert(remove_entry(obj, pair[1]), pair[2], obj[pair[1]])
    ELSE obj

\* One step of the conversion loop. The entry is removed first and inserted
\* again only by the two matching arms; parse().unwrap() panics on text that is
\* no number.
ConvOne(r, c) ==
    IF r.st # "ok" \/ c.k \notin DOMAIN r.obj THEN r
    ELSE LET v == r.obj[c.k]
             rest == remove_entry(r.obj, c.k)
         IN  IF v.k = "num" /\ c.from = "Number" /\ c.to = "String"
             THEN [st |-> "ok", obj |-> insert(rest, c.k, JStr(to_string(v.n)))]
             ELSE IF v.k = "str" /\ c.from = "String" /\ c.to = "Number"
             THEN IF IsNumeric(v.s)
                  THEN [st |-> "ok", obj |-> insert(rest, c.k, JNum(parse(v.s)))]
                  ELSE [st |-> "panic", obj |-> rest]
             ELSE [st |-> "ok", obj |-> rest]

RECURSIVE FoldMap(_, _)
FoldMap(obj, pairs) ==
    IF pairs = <<>> THEN obj ELSE FoldMap(MapOne(obj, Head(pairs)), Tail(pairs))

RECURSIVE FoldConv(_, _)
FoldConv(r, convs) ==
    IF convs = <<>> THEN r ELSE FoldConv(ConvOne(r, Head(convs)), Tail(convs))

\* A convert that runs the conversions before the mapping pairs.
convert_conversion_first(obj, config) ==
    LET r == FoldConv([st |-> "ok", obj |-> obj], config.conversion)
    IN  [st |-> r.st, obj |-> FoldMap(r.obj, config.mapping)]

\* The closure `convert` of JsonObjects::new: the mapping pairs, then the
\* conversions, each in the iteration order of its HashMap.
convert(obj, config) ==
    FoldConv([st |-> "ok", obj |-> FoldMap(obj, config.mapping)], config.conversion)

\* A loop that collects the converted records last one first.
RECURSIVE ConvertAll_rev(_, _)
ConvertAll_rev(recs, config) ==
    IF recs = <<>> THEN [st |-> "ok", data |-> <<>>]
    ELSE LET r == convert(Head(recs), config)
         IN  IF r.st # "ok" THEN [st |-> r.st, data |-> <<>>]
             ELSE LET rest == ConvertAll_rev(Tail(recs), config)
                  IN  IF rest.st # "ok" THEN rest
                      ELSE [st |-> "ok", data |-> rest.data \o <<r.obj>>]

\* `for item in data.iter_mut() { convert(item) }`: every record, in place.
RECURSIVE ConvertAll(_, _)
ConvertAll(recs, config) ==
    IF recs = <<>> THEN [st |-> "ok", data |-> <<>>]
    ELSE LET r == convert(Head(recs), config)
         IN  IF r.st # "ok" THEN [st |-> r.st, data |-> <<>>]
             ELSE LET rest == ConvertAll(Tail(recs), config)
                  IN  IF rest.st # "ok" THEN rest
                      ELSE [st |-> "ok", data |-> <<r.obj>> \o rest.data]

\* JsonObjects::new. An input text is its length, whether byte PrefixLen is a
\* character boundary, and what the parser of the declared format makes of it:
\* an array of records, one record object, or neither. The array stage's
\* map_err builds the error message as soon as that stage fails, and the
\* message slices the first PrefixLen bytes of the input: the slice panics on
\* a shorter text and on a text it would cut inside a character.
JsonObjects_new(input, config) ==
    IF input.kind = "array" THEN ConvertAll(input.recs, config)
    ELSE IF input.len < PrefixLen \/ ~input.cut THEN [st |-> "panic", data |-> <<>>]
    ELSE IF input.kind = "object" THEN ConvertAll(<<input.recs[1]>>, config)
    ELSE [st |-> "err", data |-> <<>>]

\* ------------------------------------------------------- schema, documents
\* tantivy::schema::Value and FieldValue.
U64(f, n) == [f |-> f, t |-> "u64", n |-> n, s |-> ""]
Text(f, s) == [f |-> f, t |-> "str", n |-> 0, s |-> s]

\* The schemas of the model: field name -> declared type.
SchemaU64 == [id |-> "u64", title |-> "text"]
SchemaNoId == [title |-> "text"]
Schemas == {SchemaU64, SchemaNoId}

\* Schema::get_field.
get_field(schema, name) == name \in DOMAIN schema

\* FieldType::value_from_json for the u64 and text types on a scalar.
value_ok(ftype, jv) ==
    \/ ftype = "u64" /\ jv.k = "num"
    \/ ftype = "text" /\ jv.k = "str"
value_from_json(f, ftype, jv) ==
    IF ftype = "u64" THEN U64(f, jv.n) ELSE Text(f, jv.s)

\* The field values one (field, json value) pair adds to a document: one per
\* array element, or one for a scalar.
Items(jv) == IF jv.k = "arr" THEN jv.a ELSE <<jv>>

RECURSIVE ValuesOf(_, _, _)
ValuesOf(f, ftype, items) ==
    IF items = <<>> THEN <<>>
    ELSE <<value_from_json(f, ftype, Head(items))>> \o ValuesOf(f, ftype, Tail(items))

FieldFails(schema, obj, f) ==
    \/ ~get_field(schema, f)
    \/ \E i \in 1..Len(Items(obj[f])) : ~value_ok(schema[f], Items(obj[f])[i])

RECURSIVE DocFields(_, _, _)
DocFields(schema, obj, keys) ==
    IF keys = <<>> THEN <<>>
    ELSE ValuesOf(Head(keys), schema[Head(keys)], Items(obj[Head(keys)]))
         \o DocFields(schema, obj, Tail(keys))

\* The closure obj2doc of JsonObjects::to_docs.
obj2doc(schema, obj) ==
    IF \E f \in DOMAIN obj : FieldFails(schema, obj, f)
    THEN [st |-> "err", doc |-> <<>>]
    ELSE [st |-> "ok", doc |-> DocFields(schema, obj, Keys(obj))]

\* A to_docs that leaves out the records obj2doc fails on.
to_docs_skip_failed(data, schema) ==
    LET good == SelectSeq(data, LAMBDA o : obj2doc(schema, o).st = "ok")
    IN  [st |-> "ok", docs |-> [i \in 1..Len(good) |-> obj2doc(schema, good[i]).doc]]

\* JsonObjects::to_docs: collect() of the per-record results into one Result.
to_docs(data, schema) ==
    IF \E i \in 1..Len(data) : obj2doc(schema, data[i]).st = "err"
    THEN [st |-> "err", docs |-> <<>>]
    ELSE [st |-> "ok", docs |-> [i \in 1..Len(data) |-> obj2doc(schema, data[i]).doc]]

\* The field the error of obj2doc names: the first one, in iteration order,
\* that the schema does not declare or whose value it cannot take.
FirstFailing(schema, obj) ==
    LET bad == SelectSeq(Keys(obj), LAMBDA f : FieldFails(schema, obj, f))
    IN  IF bad = <<>> THEN "none" ELSE bad[1]

\* The field names the Err of to_docs may name: collect() of the parallel
\* iterator returns the error of any one failing record.
to_docs_err(data, schema) ==
    IF to_docs(data, schema).st = "ok" THEN {"none"}
    ELSE {FirstFailing(schema, data[i]) : i \in {j \in 1..Len(data) : obj2doc(schema, data[j]).st = "err"}}

\* schema.to_named_doc(&doc).0.get("id"): the values the document holds under id.
IdValues(doc) == SelectSeq(doc, LAMBDA fv : fv.f = "id")

\* A guard that takes the first id value whenever the document holds any.
ResolvableId_any(schema, doc) ==
    /\ get_field(schema, "id")
    /\ Len(IdValues(doc)) >= 1
    /\ IdValues(doc)[1].t = "u64"

\* The guard of the delete step of Update: the schema declares id, and the
\* document holds exactly one value under it, a u64.
ResolvableId(schema, doc) ==
    /\ get_field(schema, "id")
    /\ Len(IdValues(doc)) = 1
    /\ IdValues(doc)[1].t = "u64"

\* Whether a document of the index matches the term (id, n).
HasTerm(doc, n) == \E i \in 1..Len(doc) : doc[i].f = "id" /\ doc[i].t = "u64" /\ doc[i].n = n



\* An entry of the index: a document and the request (its ticket) that added it;
\* 0 for the documents the index held when it was opened.
Entry(doc, src) == [doc |-> doc, src |-> src]

RECURSIVE Entries(_, _)
Entries(docs, src) ==
    IF docs = <<>> THEN <<>> ELSE <<Entry(Head(docs), src)>> \o Entries(Tail(docs), src)

\* A delete_term that deletes nothing, and a delete_all_documents that keeps all.
delete_term_skip(w, n) == w
delete_all_documents_noop(w) == w

\* IndexWriter::delete_term on the writer's pending view, add_document, and
\* delete_all_documents.
delete_term(w, n) == SelectSeq(w, LAMBDA e : ~HasTerm(e.doc, n))
add_document(w, e) == Append(w, e)
delete_all_documents(w) == <<>>

\* ------------------------------------------------------------------ inputs
rA == [id |-> JNum(1), title |-> JStr("a")]
rK1 == [id |-> JNum(2), title |-> JStr("c")]
rB == [id |-> JNum(1), title |-> JStr("b")]
rN == [title |-> JStr("a")]
rM == [id |-> JArr(<<JNum(1), JNum(2)>>), title |-> JStr("c")]

\* The texts and configurations handed to add and update.
rS == [id |-> JStr("1"), title |-> JStr("a")]
rX == [id |-> JStr("x"), title |-> JStr("a")]
rK == [id |-> JNum(2), sid |-> JNum(2), title |-> JStr("a")]
Text_(kind, recs, len) == [kind |-> kind, recs |-> recs, len |-> len, cut |-> TRUE]
\* A text in which byte PrefixLen falls inside a multi-byte character.
TextMB(kind, recs, len) == [kind |-> kind, recs |-> recs, len |-> len, cut |-> FALSE]
Texts ==
    {Text_("array", <<rA, rB>>, 60), Text_("object", <<rS>>, 30), Text_("object", <<rS>>, 10),
     Text_("array", <<rX>>, 30), Text_("array", <<rK>>, 30), Text_("garbage", <<>>, 30),
     Text_("garbage", <<>>, 10)}
CfgNone == [mapping |-> <<>>, conversion |-> <<>>]
CfgId == [mapping |-> <<>>, conversion |-> <<[k |-> "id", from |-> "String", to |-> "Number"]>>]
Configs == {CfgNone, CfgId}

\* The Vec<Document> built from a batch of records that the schema accepts.
Docs(recs, schema) == to_docs(recs, schema).docs

\* The environments of the model: the schema of the index, what the index holds
\* when it is opened, the handles the callers mint, the documents they submit,
\* whether they drop their handles and the Indexer, and whether the storage
\* under the writer can fail.
EnvOrder ==
    [schema |-> SchemaU64, inits |-> {<<>>}, handles |-> {"h1", "h2"},
     batches |-> {<<rA>>}, drops |-> FALSE, faulty |-> TRUE, adds |-> {}]
EnvDocs ==
    [schema |-> SchemaU64, inits |-> {<<>>, <<rM>>}, handles |-> {"h1"},
     batches |-> {<<rA>>, <<rA, rB>>, <<rM>>}, drops |-> FALSE, faulty |-> FALSE, adds |-> {}]
EnvNoId ==
    [schema |-> SchemaNoId, inits |-> {<<>>, <<rN>>}, handles |-> {"h1"},
     batches |-> {<<rN>>}, drops |-> FALSE, faulty |-> FALSE, adds |-> {}]
EnvDrops ==
    [schema |-> SchemaU64, inits |-> {<<rA>>}, handles |-> {"h1", "h2"},
     batches |-> {}, drops |-> TRUE, faulty |-> FALSE, adds |-> {}]
\* The test index_data_and_search: one handle adds a text of records whose ids
\* are numbers, then one record whose id is a string, declared String to Number.
EnvTest ==
    [schema |-> SchemaU64, inits |-> {<<>>}, handles |-> {"h1"},
     batches |-> {}, drops |-> FALSE, faulty |-> FALSE,
     adds |-> {[input |-> Text_("array", <<rK1, rB>>, 60), config |-> CfgNone],
               [input |-> Text_("object", <<rS>>, 30), config |-> CfgId]}]
Envs == {EnvOrder, EnvDocs, EnvNoId, EnvDrops, EnvTest}

Handles == {"h1", "h2"}

\* The Input enum (Create, Update, Commit, Clear), with the sending handle h, the
\* handle's own count n and the channel's acceptance ticket t.
Req(type, docs, h, n, t) == [type |-> type, docs |-> docs, h |-> h, n |-> n, t |-> t]
NoReq == Req("None", <<>>, "none", 0, 0)

\* --------------------------------------------------------------- the state
VARIABLES
    env,        \* the environment of this behaviour
    schema,     \* config.schema
    queue,      \* the unbounded channel of Input
    live,       \* the holders of a Sender: "indexer" and the handles minted
    cstate,     \* the coordinator thread: Idle, Applying, Stopped
    cur,        \* the request process() is applying
    idx,        \* the position of process() in cur.docs
    phase,      \* Update: "delete" before delete_term, "insert" before add_document
    res,        \* the Result of the process() call in progress
    wstart,     \* the writer's view when process() was called
    writer,     \* the writer's view: committed and pending operations
    committed,  \* the index as of the last commit
    snapshot,   \* the reader's searcher
    fails,      \* writer calls that returned Err
    sent,       \* requests accepted by the channel
    hcount,     \* requests sent per handle
    hist,       \* the requests process() has returned from, in order
    init,       \* the index content at open time
    commitNo,   \* the ticket of the last Commit that succeeded (0: none)
    snapNo,     \* the commit the snapshot was loaded from
    upc,        \* the IndexUpdater of updater.rs: where its call is
    ucall,      \* its call in progress
    uidx,       \* the position of that call in its documents
    uret,       \* what its last call returned
    ucalls,     \* calls made on it
    upre,       \* writer, committed and queue when its last call began
    npc,        \* a caller of JsonObjects: start, config, new, docs, panicked
    ntab,       \* the tables it gave to InputConfig::new
    ncfg,       \* the InputConfig it holds
    ntext,      \* the text it gave to JsonObjects::new
    nres,       \* what JsonObjects::new returned
    ndocs,      \* what to_docs returned
    nprev,      \* its previous call of JsonObjects::new: tables, text, result
    sres        \* what the last call of Indexer::search returned

cvars == <<queue, live, cstate, cur, idx, phase, res, wstart, fails, sent, hcount, hist, commitNo>>
uvars == <<upc, ucall, uidx, uret, ucalls, upre>>
ivars == <<writer, committed, snapshot, snapNo>>
nvars == <<npc, ntab, ncfg, ntext, nres, ndocs, nprev>>
\* What no step of an index, its handles or its reader changes.
fixed == <<env, schema, init, nvars, sres>>
vars == <<fixed, cvars, uvars, ivars>>

NoCall == [kind |-> "none", docs |-> <<>>, input |-> "none", config |-> "none"]
NoText == Text_("none", <<>>, 0)
NoRes == [st |-> "none", data |-> <<>>]
NoDocs == [st |-> "none", docs |-> <<>>, field |-> "none"]
NoRun == [tab |-> CfgNone, text |-> NoText, res |-> NoRes]
NoHits == [st |-> "none", hits |-> <<>>]

\* Indexer::open_or_create: an index (new, or opened with its content), one
\* writer, one channel, one consumer thread, a reader on the committed state.
open_or_create(e) ==
    /\ env = e /\ schema = e.schema
    /\ init \in {Entries(Docs(recs, e.schema), 0) : recs \in e.inits}
    /\ writer = init /\ committed = init /\ snapshot = init
    /\ queue = <<>> /\ live = {"indexer"}
    /\ cstate = "Idle" /\ cur = NoReq /\ idx = 0 /\ phase = "none" /\ res = "ok"
    /\ wstart = <<>>
    /\ fails = 0 /\ sent = 0 /\ hcount = [h \in Handles |-> 0] /\ hist = <<>>
    /\ commitNo = 0 /\ snapNo = 0
    /\ upc = "idle" /\ ucall = NoCall /\ uidx = 0 /\ uret = "none" /\ ucalls = 0
    /\ upre = [writer |-> init, committed |-> init, queue |-> <<>>]
    /\ npc = "start" /\ ntab = CfgNone /\ ncfg = CfgNone /\ ntext = NoText
    /\ nres = NoRes /\ ndocs = NoDocs /\ nprev = NoRun
    /\ sres = NoHits

Init == \E e \in Envs : open_or_create(e)

\* ------------------------------------------------- the channel, its holders
\* A channel that puts a new message first, and one that hands out the newest.
send_front(q, m) == <<m>> \o q
recv_lifo(q) == [msg |-> q[Len(q)], rest |-> SubSeq(q, 1, Len(q) - 1)]

\* Sender::send on the unbounded channel, and the receiver's next message.
send(q, m) == Append(q, m)
recv(q) == [msg |-> Head(q), rest |-> Tail(q)]

\* Indexer::get_updater: a new handle with a clone of the Indexer's Sender.
get_updater(h) ==
    /\ "indexer" \in live /\ h \in env.handles /\ h \notin live
    /\ live' = live \cup {h}
    /\ UNCHANGED <<fixed, queue, cstate, cur, idx, phase, res, wstart, fails, sent,
                   hcount, hist, commitNo, uvars, ivars>>

\* A handle, or the last clone of the Indexer, is dropped, and its Sender with it.
Drop(x) ==
    /\ env.drops /\ x \in live
    /\ live' = live \ {x}
    /\ UNCHANGED <<fixed, queue, cstate, cur, idx, phase, res, wstart, fails, sent,
                   hcount, hist, commitNo, uvars, ivars>>

\* A live handle's Sender sends one Input: the channel accepts it at once.
Send(h, type, docs) ==
    /\ h \in live /\ sent < MaxReq
    /\ queue' = send(queue, Req(type, docs, h, hcount[h] + 1, sent + 1))
    /\ sent' = sent + 1
    /\ hcount' = [hcount EXCEPT ![h] = @ + 1]
    /\ UNCHANGED <<fixed, live, cstate, cur, idx, phase, res, wstart, fails, hist,
                   commitNo, uvars, ivars>>

SendCreate(h) == \E recs \in env.batches : Send(h, "Create", Docs(recs, schema))
SendUpdate(h) == \E recs \in env.batches : Send(h, "Update", Docs(recs, schema))
SendCommit(h) == Send(h, "Commit", <<>>)
SendClear(h) == Send(h, "Clear", <<>>)

\* The add of the handle that Indexer::get_updater builds around the Sender:
\* the documents of JsonObjects::new and to_docs are sent as one Create.
handle_add(h) ==
    \E a \in env.adds :
        LET objs == JsonObjects_new(a.input, a.config)
            docs == to_docs(objs.data, schema)
        IN  /\ objs.st = "ok" /\ docs.st = "ok"
            /\ Send(h, "Create", docs.docs)

\* ---------------------------------------------- the coordinator's thread
\* A second consumer on the same channel and writer: it takes the next message
\* while process() is still applying one.
Recv_second_consumer ==
    /\ queue # <<>>
    /\ cur' = recv(queue).msg /\ queue' = recv(queue).rest
    /\ cstate' = "Applying" /\ idx' = 1 /\ phase' = "delete" /\ res' = "ok"
    /\ wstart' = writer
    /\ UNCHANGED <<fixed, live, fails, sent, hcount, hist, commitNo, uvars, ivars>>

\* `for input in r`: the next message of the channel, handed to process().
Recv ==
    /\ cstate = "Idle" /\ queue # <<>>
    /\ cur' = recv(queue).msg /\ queue' = recv(queue).rest
    /\ cstate' = "Applying" /\ idx' = 1 /\ phase' = "delete" /\ res' = "ok"
    /\ wstart' = writer
    /\ UNCHANGED <<fixed, live, fails, sent, hcount, hist, commitNo, uvars, ivars>>

\* A loop over try_iter(): it ends as soon as the channel is empty.
Stop_try_iter ==
    /\ cstate = "Idle" /\ queue = <<>>
    /\ cstate' = "Stopped"
    /\ UNCHANGED <<fixed, queue, live, cur, idx, phase, res, wstart, fails, sent,
                   hcount, hist, commitNo, uvars, ivars>>

\* A loop that ends as soon as every Sender is gone, whatever is still queued.
Stop_on_disconnect ==
    /\ cstate = "Idle" /\ live = {}
    /\ cstate' = "Stopped"
    /\ UNCHANGED <<fixed, queue, live, cur, idx, phase, res, wstart, fails, sent,
                   hcount, hist, commitNo, uvars, ivars>>

\* The loop ends when the channel is empty and every Sender is gone.
Stop ==
    /\ cstate = "Idle" /\ queue = <<>> /\ live = {}
    /\ cstate' = "Stopped"
    /\ UNCHANGED <<fixed, queue, live, cur, idx, phase, res, wstart, fails, sent,
                   hcount, hist, commitNo, uvars, ivars>>

Applying(type) == cstate = "Applying" /\ cur.type = type

\* A Create arm that commits after each document.
process_Create_commits ==
    /\ Applying("Create") /\ idx <= Len(cur.docs)
    /\ writer' = add_document(writer, Entry(cur.docs[idx], cur.t))
    /\ committed' = writer'
    /\ idx' = idx + 1
    /\ UNCHANGED <<fixed, queue, live, cstate, cur, phase, res, wstart, fails, sent,
                   hcount, hist, commitNo, uvars, snapshot, snapNo>>

\* Input::Create: add_document for the next document.
process_Create ==
    /\ Applying("Create") /\ idx <= Len(cur.docs)
    /\ writer' = add_document(writer, Entry(cur.docs[idx], cur.t))
    /\ idx' = idx + 1
    /\ UNCHANGED <<fixed, queue, live, cstate, cur, phase, res, wstart, fails, sent,
                   hcount, hist, commitNo, uvars, committed, snapshot, snapNo>>

\* Input::Update, the delete step: taken when the id of the document resolves.
process_Update_delete ==
    /\ Applying("Update") /\ idx <= Len(cur.docs) /\ phase = "delete"
    /\ ResolvableId(schema, cur.docs[idx])
    /\ writer' = delete_term(writer, IdValues(cur.docs[idx])[1].n)
    /\ phase' = "insert"
    /\ UNCHANGED <<fixed, queue, live, cstate, cur, idx, res, wstart, fails, sent,
                   hcount, hist, commitNo, uvars, committed, snapshot, snapNo>>

\* Input::Update, the insert step.
process_Update_insert ==
    /\ Applying("Update") /\ idx <= Len(cur.docs)
    /\ phase = "insert" \/ ~ResolvableId(schema, cur.docs[idx])
    /\ writer' = add_document(writer, Entry(cur.docs[idx], cur.t))
    /\ idx' = idx + 1 /\ phase' = "delete"
    /\ UNCHANGED <<fixed, queue, live, cstate, cur, res, wstart, fails, sent,
                   hcount, hist, commitNo, uvars, committed, snapshot, snapNo>>

\* IndexWriter::commit: the pending view becomes the committed state.
commit(w) == w

\* A Commit arm that does nothing.
process_Commit_skip ==
    /\ Applying("Commit") /\ idx = 1
    /\ idx' = 2
    /\ UNCHANGED <<fixed, queue, live, cstate, cur, phase, res, wstart, fails, sent,
                   hcount, hist, commitNo, uvars, ivars>>

\* Input::Commit: writer.commit()? succeeds, or returns Err.
process_Commit_ok ==
    /\ Applying("Commit") /\ idx = 1
    /\ committed' = commit(writer) /\ commitNo' = cur.t
    /\ idx' = 2
    /\ UNCHANGED <<fixed, queue, live, cstate, cur, phase, res, wstart, fails, sent,
                   hcount, hist, uvars, writer, snapshot, snapNo>>

process_Commit_err ==
    /\ Applying("Commit") /\ idx = 1 /\ env.faulty /\ fails < MaxFail
    /\ res' = "err" /\ fails' = fails + 1
    /\ idx' = 2
    /\ UNCHANGED <<fixed, queue, live, cstate, cur, phase, wstart, sent,
                   hcount, hist, commitNo, uvars, ivars>>

\* Input::Clear: writer.delete_all_documents()? succeeds, or returns Err.
process_Clear_ok ==
    /\ Applying("Clear") /\ idx = 1
    /\ writer' = delete_all_documents(writer)
    /\ idx' = 2
    /\ UNCHANGED <<fixed, queue, live, cstate, cur, phase, res, wstart, fails, sent,
                   hcount, hist, commitNo, uvars, committed, snapshot, snapNo>>

process_Clear_err ==
    /\ Applying("Clear") /\ idx = 1 /\ env.faulty /\ fails < MaxFail
    /\ res' = "err" /\ fails' = fails + 1
    /\ idx' = 2
    /\ UNCHANGED <<fixed, queue, live, cstate, cur, phase, wstart, sent,
                   hcount, hist, commitNo, uvars, ivars>>

\* Where process() stands when it has nothing left to do for the request.
Done ==
    /\ cstate = "Applying"
    /\ IF cur.type \in {"Create", "Update"} THEN idx > Len(cur.docs) ELSE idx = 2

\* A loop that ends at the first Err of process().
AfterProcess_break(r) == IF r = "err" THEN "Stopped" ELSE "Idle"

\* The loop body after process(): an Err is logged with warn!, and the loop
\* goes on to the next message either way.
AfterProcess(r) == "Idle"

process_return ==
    /\ Done
    /\ hist' = Append(hist, [req |-> cur, ok |-> res = "ok"])
    /\ cstate' = AfterProcess(res)
    /\ cur' = NoReq /\ idx' = 0 /\ phase' = "none" /\ res' = "ok" /\ wstart' = <<>>
    /\ UNCHANGED <<fixed, queue, live, fails, sent, hcount, commitNo, uvars, ivars>>

\* ------------------------------------------------------------ the reader
\* A reload that loads the writer's pending view.
reload_pending ==
    /\ snapshot' = writer /\ snapNo' = commitNo
    /\ UNCHANGED <<fixed, cvars, uvars, writer, committed>>

\* Indexer::reload, and the reload the OnCommit policy runs after a commit:
\* the searcher moves to the committed state.
reload ==
    /\ snapshot' = committed /\ snapNo' = commitNo
    /\ UNCHANGED <<fixed, cvars, uvars, writer, committed>>

\* Indexer::num_docs.
num_docs == Len(snapshot)

\* ------------------------------------ the IndexUpdater of src/src/updater.rs
EnvUpdater ==
    [schema |-> SchemaU64, inits |-> {<<>>, <<rA>>}, handles |-> {}, batches |-> {},
     drops |-> FALSE, faulty |-> TRUE, adds |-> {}]

\* IndexUpdater::add and IndexUpdater::update up to the first writer call:
\* JsonObjects::new(input, config, t2s)? and objs.to_docs(&self.schema)?.
call(kind, input, config) ==
    /\ upc = "idle" /\ ucalls < MaxCalls
    /\ ucalls' = ucalls + 1
    /\ upre' = [writer |-> writer, committed |-> committed, queue |-> queue]
    /\ LET objs == JsonObjects_new(input, config)
           docs == to_docs(objs.data, schema)
       IN  /\ ucall' = [kind |-> kind, input |-> input, config |-> config,
                        docs |-> IF objs.st = "ok" /\ docs.st = "ok" THEN docs.docs ELSE <<>>]
           /\ upc' = IF objs.st = "panic" THEN "panicked"
                     ELSE IF objs.st = "err" \/ docs.st = "err" THEN "idle"
                     ELSE kind
           /\ uret' = IF objs.st = "panic" THEN "panic"
                      ELSE IF objs.st = "err" \/ docs.st = "err" THEN "err"
                      ELSE "none"
    /\ uidx' = 1
    /\ UNCHANGED <<fixed, cvars, ivars>>

add(input, config) == call("add", input, config)
update(input, config) == call("update", input, config)

\* IndexUpdater::add: self.writer.add_document(doc) for the next document.
add_insert ==
    /\ upc = "add" /\ uidx <= Len(ucall.docs)
    /\ writer' = add_document(writer, Entry(ucall.docs[uidx], ucalls))
    /\ uidx' = uidx + 1
    /\ UNCHANGED <<fixed, cvars, upc, ucall, uret, ucalls, upre, committed, snapshot, snapNo>>

\* IndexUpdater::update: self.writer.delete_term(term) when the id resolves.
update_delete ==
    /\ upc = "update" /\ uidx <= Len(ucall.docs)
    /\ ResolvableId(schema, ucall.docs[uidx])
    /\ writer' = delete_term(writer, IdValues(ucall.docs[uidx])[1].n)
    /\ upc' = "update_insert"
    /\ UNCHANGED <<fixed, cvars, ucall, uidx, uret, ucalls, upre, committed, snapshot, snapNo>>

\* IndexUpdater::update: self.writer.add_document(doc).
update_insert ==
    /\ uidx <= Len(ucall.docs)
    /\ upc = "update_insert" \/ (upc = "update" /\ ~ResolvableId(schema, ucall.docs[uidx]))
    /\ writer' = add_document(writer, Entry(ucall.docs[uidx], ucalls))
    /\ uidx' = uidx + 1 /\ upc' = "update"
    /\ UNCHANGED <<fixed, cvars, ucall, uret, ucalls, upre, committed, snapshot, snapNo>>

\* The end of add and of update: self.writer.commit()?; Ok(()).
call_commit_ok ==
    /\ upc \in {"add", "update"} /\ uidx > Len(ucall.docs)
    /\ committed' = commit(writer)
    /\ upc' = "idle" /\ uret' = "ok"
    /\ UNCHANGED <<fixed, cvars, ucall, uidx, ucalls, upre, writer, snapshot, snapNo>>

call_commit_err ==
    /\ upc \in {"add", "update"} /\ uidx > Len(ucall.docs)
    /\ env.faulty /\ fails < MaxFail
    /\ fails' = fails + 1
    /\ upc' = "idle" /\ uret' = "err"
    /\ UNCHANGED <<fixed, queue, live, cstate, cur, idx, phase, res, wstart, sent, hcount,
                   hist, commitNo, ucall, uidx, ucalls, upre, ivars>>

\* IndexUpdater::clear: self.writer.delete_all_documents().
clear ==
    /\ upc = "idle" /\ ucalls < MaxCalls
    /\ ucalls' = ucalls + 1
    /\ upre' = [writer |-> writer, committed |-> committed, queue |-> queue]
    /\ ucall' = [kind |-> "clear", input |-> "none", config |-> "none", docs |-> <<>>]
    /\ writer' = delete_all_documents(writer)
    /\ uret' = "ok"
    /\ UNCHANGED <<fixed, cvars, upc, uidx, committed, snapshot, snapNo>>

\* ------------------------------------- a caller of InputConfig and JsonObjects
rD == [sid |-> JNum(3), title |-> JStr("a")]
rC == [id |-> JNum(1), sid |-> JNum(2)]
rT == [id |-> JNum(2), title |-> JStr("3")]

\* The texts handed to JsonObjects::new.
NormTexts ==
    Texts \cup
    {Text_("array", <<>>, 2), Text_("array", <<rD>>, 30), Text_("array", <<rC, rD>>, 60),
     Text_("array", <<rM>>, 40), Text_("array", <<rT, rA, rX>>, 90),
     Text_("object", <<rA>>, 30), TextMB("object", <<rA>>, 30),
     TextMB("array", <<rA>>, 30), TextMB("garbage", <<>>, 30)}

\* The mapping and conversion tables handed to InputConfig::new.
Conv(k, from, to) == [k |-> k, from |-> from, to |-> to]
Tables ==
    {CfgNone, CfgId,
     [mapping |-> <<>>, conversion |-> <<Conv("id", "Number", "String")>>],
     [mapping |-> <<>>, conversion |-> <<Conv("title", "Number", "String")>>],
     [mapping |-> <<<<"sid", "id">>>>, conversion |-> <<Conv("id", "Number", "String")>>],
     [mapping |-> <<<<"sid", "id">>, <<"id", "title">>>>, conversion |-> <<>>],
     [mapping |-> <<<<"sid", "title">>, <<"id", "title">>>>, conversion |-> <<>>],
     [mapping |-> <<>>,
      conversion |-> <<Conv("title", "String", "Number"), Conv("id", "Number", "String")>>]}

\* The orders in which a HashMap built from the entries of s may iterate them.
Orders(s) ==
    {[i \in 1..Len(s) |-> s[p[i]]] :
        p \in {q \in [1..Len(s) -> 1..Len(s)] : \A i, j \in 1..Len(s) : q[i] = q[j] => i = j}}

\* InputConfig::new: each table is collected into a HashMap.
InputConfig_new(mapping, conversion) ==
    /\ \/ npc = "start"
       \/ npc \in {"new", "docs"} /\ mapping = ntab.mapping /\ conversion = ntab.conversion
    /\ ntab' = [mapping |-> mapping, conversion |-> conversion]
    /\ \E m \in Orders(mapping), c \in Orders(conversion) :
          ncfg' = [mapping |-> m, conversion |-> c]
    /\ npc' = "config"
    /\ UNCHANGED <<env, schema, init, ntext, nres, ndocs, nprev, cvars, uvars, ivars, sres>>

\* A call of JsonObjects::new(input, &config, t2s) with the InputConfig held.
JsonObjects_new_call(input) ==
    /\ npc \in {"config", "new", "docs"}
    /\ ntext' = input
    /\ nres' = JsonObjects_new(input, ncfg)
    /\ npc' = IF nres'.st = "panic" THEN "panicked" ELSE "new"
    /\ ndocs' = NoDocs
    /\ nprev' = IF npc = "config" /\ nres = NoRes THEN NoRun
                ELSE [tab |-> ntab, text |-> ntext, res |-> nres]
    /\ UNCHANGED <<env, schema, init, ntab, ncfg, cvars, uvars, ivars, sres>>

\* A call of to_docs(&schema) on the JsonObjects returned.
to_docs_call ==
    /\ npc = "new" /\ nres.st = "ok"
    /\ LET r == to_docs(nres.data, schema)
       IN  \E f \in to_docs_err(nres.data, schema) :
               ndocs' = [st |-> r.st, docs |-> r.docs, field |-> f]
    /\ npc' = "docs"
    /\ UNCHANGED <<env, schema, init, ntab, ncfg, ntext, nres, nprev, cvars, uvars, ivars, sres>>

NextNorm ==
    \/ \E t \in Tables : InputConfig_new(t.mapping, t.conversion)
    \/ \E input \in NormTexts : JsonObjects_new_call(input)
    \/ to_docs_call

EnvNorm ==
    [schema |-> SchemaU64, inits |-> {<<>>}, handles |-> {}, batches |-> {},
     drops |-> FALSE, faulty |-> FALSE, adds |-> {}]
EnvNormNoId ==
    [schema |-> SchemaNoId, inits |-> {<<>>}, handles |-> {}, batches |-> {},
     drops |-> FALSE, faulty |-> FALSE, adds |-> {}]

InitNorm == \E e \in {EnvNorm, EnvNormNoId} : open_or_create(e)

SpecNorm == InitNorm /\ [][NextNorm]_vars

\* ------------------------------------------------------ Indexer::search
rA2 == [id |-> JNum(2), title |-> JStr("a")]

\* The calls of search: a query text that is one term, or one the query parser
\* rejects; field names, declared or not; a limit of at least 1; an offset.
Term(s) == [kind |-> "term", term |-> s]
Malformed == [kind |-> "malformed", term |-> ""]
Queries == {Term("a"), Term("b"), Malformed}
FieldNames == {<<"title">>, <<"nosuch", "title">>, <<"nosuch">>}
MaxLimit == 2
MaxOffset == 1

EnvSearch ==
    [schema |-> SchemaU64, inits |-> {<<rA, rA2, rB>>}, handles |-> {"h1"},
     batches |-> {<<rA>>}, drops |-> FALSE, faulty |-> FALSE, adds |-> {}]

\* fields.iter().filter_map(|s| schema.get_field(s)).collect().
query_fields(sch, fields) == SelectSeq(fields, LAMBDA f : get_field(sch, f))

\* The documents of a searcher that hold the term under one of the text fields
\* the query runs over, in the order of their ranking.
Matches(sch, doc, term, qf) ==
    \E i \in 1..Len(doc) : \E j \in 1..Len(qf) :
        doc[i].f = qf[j] /\ sch[qf[j]] = "text" /\ doc[i].t = "str" /\ doc[i].s = term
Ranking(sch, searcher, term, qf) ==
    SelectSeq(searcher, LAMBDA e : Matches(sch, e.doc, term, qf))

\* A collector that leaves the offset out.
TopDocs_no_offset(ranking, limit, offset) ==
    SubSeq(ranking, 1, IF Len(ranking) < limit THEN Len(ranking) ELSE limit)

\* TopDocs::with_limit(limit).and_offset(offset) on a ranking.
TopDocs(ranking, limit, offset) ==
    SubSeq(ranking, offset + 1,
           IF Len(ranking) < offset + limit THEN Len(ranking) ELSE offset + limit)

\* Indexer::search on the reader's searcher: parse_query fails on a malformed
\* text, and on a term when no field is left to run it over.
search(query, fields, limit, offset) ==
    /\ LET qf == query_fields(schema, fields)
       IN  sres' = IF query.kind = "malformed" \/ qf = <<>>
                   THEN [st |-> "err", hits |-> <<>>]
                   ELSE [st |-> "ok",
                         hits |-> TopDocs(Ranking(schema, snapshot, query.term, qf), limit, offset)]
    /\ UNCHANGED <<env, schema, init, nvars, cvars, uvars, ivars>>

NextSearch ==
    \/ \E h \in Handles : get_updater(h)
    \/ \E h \in Handles : SendCreate(h)
    \/ \E h \in Handles : SendCommit(h)
    \/ \E h \in Handles : SendClear(h)
    \/ Recv
    \/ process_Create
    \/ process_Commit_ok
    \/ process_Clear_ok
    \/ process_return
    \/ reload
    \/ \E query \in Queries, fields \in FieldNames, limit \in 1..MaxLimit, offset \in 0..MaxOffset :
          search(query, fields, limit, offset)

InitSearch == open_or_create(EnvSearch)

SpecSearch == InitSearch /\ [][NextSearch]_vars

NextUpdater ==
    \/ \E input \in Texts, config \in Configs : add(input, config)
    \/ \E input \in Texts, config \in Configs : update(input, config)
    \/ add_insert
    \/ update_delete
    \/ update_insert
    \/ call_commit_ok
    \/ call_commit_err
    \/ clear
    \/ reload

InitUpdater == open_or_create(EnvUpdater)

SpecUpdater == InitUpdater /\ [][NextUpdater]_vars

Next ==
    \/ \E h \in Handles : get_updater(h)
    \/ \E x \in Handles \cup {"indexer"} : Drop(x)
    \/ \E h \in Handles : SendCreate(h)
    \/ \E h \in Handles : SendUpdate(h)
    \/ \E h \in Handles : SendCommit(h)
    \/ \E h \in Handles : SendClear(h)
    \/ \E h \in Handles : handle_add(h)
    \/ Recv
    \/ process_Create
    \/ process_Update_delete
    \/ process_Update_insert
    \/ process_Commit_ok
    \/ process_Commit_err
    \/ process_Clear_ok
    \/ process_Clear_err
    \/ process_return
    \/ Stop
    \/ reload

Spec == Init /\ [][Next]_vars

\* The steps of the consumer thread spawned by open_or_create.
Consumer ==
    \/ Recv
    \/ process_Create
    \/ process_Update_delete
    \/ process_Update_insert
    \/ process_Commit_ok
    \/ process_Commit_err
    \/ process_Clear_ok
    \/ process_Clear_err
    \/ process_return
    \/ Stop

\* The consumer is an operating-system thread of its own: while it has a step
\* to take, it is scheduled.
SpecFair == Spec /\ WF_vars(Consumer)

\* ReloadPolicy::OnCommit: the reader reloads by itself after a commit.
SpecOnCommit == SpecFair /\ WF_vars(reload)


\* ================================================================= claims
\* What a request, applied whole with the recorded Result, makes of a writer view.
RECURSIVE CreateAll(_, _, _)
CreateAll(w, docs, t) ==
    IF docs = <<>> THEN w ELSE CreateAll(add_document(w, Entry(Head(docs), t)), Tail(docs), t)

RECURSIVE UpdateAll(_, _, _)
UpdateAll(w, docs, t) ==
    IF docs = <<>> THEN w
    ELSE LET d == Head(docs)
             w1 == IF ResolvableId(schema, d) THEN delete_term(w, IdValues(d)[1].n) ELSE w
         IN  UpdateAll(add_document(w1, Entry(d, t)), Tail(docs), t)

ApplyReq(w, e) ==
    CASE e.req.type = "Create" -> CreateAll(w, e.req.docs, e.req.t)
      [] e.req.type = "Update" -> UpdateAll(w, e.req.docs, e.req.t)
      [] e.req.type = "Clear" -> IF e.ok THEN delete_all_documents(w) ELSE w
      [] OTHER -> w

RECURSIVE Replay(_, _)
Replay(w, es) == IF es = <<>> THEN w ELSE Replay(ApplyReq(w, Head(es)), Tail(es))

\* The requests process() returned from before it was called with request t.
Pos(t) == IF \E i \in 1..Len(hist) : hist[i].req.t = t
          THEN CHOOSE i \in 1..Len(hist) : hist[i].req.t = t
          ELSE Len(hist) + 1
Before(t) == SubSeq(hist, 1, Pos(t) - 1)

\* The entries of an index view that match the term (id, n).
WithTerm(w, n) == SelectSeq(w, LAMBDA e : HasTerm(e.doc, n))

\* C1: the coordinator applies the requests in the order the channel accepted
\* them: the k-th request process() returns from is the k-th accepted, the one it
\* is applying is the next, the queue holds the following ones in order, and the
\* requests of one handle are applied in the order the handle sent them.
C1_AppliedInAcceptanceOrder ==
    /\ \A i \in 1..Len(hist) : hist[i].req.t = i
    /\ cstate = "Applying" => cur.t = Len(hist) + 1
    /\ \A i \in 1..Len(queue) :
          queue[i].t = Len(hist) + (IF cstate = "Applying" THEN 1 ELSE 0) + i
    /\ \A i, j \in 1..Len(hist) :
          i < j /\ hist[i].req.h = hist[j].req.h => hist[i].req.n < hist[j].req.n

C1_Witness ==
    /\ Len(hist) = 3
    /\ hist[1].req.h # hist[2].req.h /\ hist[3].req.h = hist[1].req.h
    /\ hist[1].req.type = "Commit" /\ hist[2].req.type = "Update" /\ hist[3].req.type = "Clear"

\* C2: every change of the writer's view or of the committed state is a step of
\* the coordinator applying a request: no handle call touches the writer.
C2_OnlyCoordinatorTouchesWriter ==
    [][(writer' # writer \/ committed' # committed) => cstate = "Applying"]_vars

\* C3: a document a request added (src # 0) is in the reader's snapshot only if
\* the snapshot was loaded from a successful Commit request queued after it.
C3_VisibleOnlyAfterCommitAndReload ==
    \A i \in 1..Len(snapshot) :
        snapshot[i].src # 0 => snapNo # 0 /\ snapshot[i].src < snapNo

\* C4: when a Commit has been applied, the requests applied before it are exactly
\* those accepted before it, and the committed state is what they make, in order,
\* of the index content at open time.
C4_CommitCoversExactlyQueuedAhead ==
    commitNo # 0 =>
        /\ {Before(commitNo)[i].req.t : i \in 1..Len(Before(commitNo))} = 1..(commitNo - 1)
        /\ committed = Replay(init, Before(commitNo))

C4_Witness ==
    /\ commitNo = 2 /\ Len(hist) = 3
    /\ hist[1].req.type = "Create" /\ hist[3].req.type = "Create"
    /\ hist[1].req.h # hist[2].req.h
    /\ Len(committed) = 1 /\ Len(writer) = 2

\* C5: after Update requests that carry documents with the same resolved id and
\* different content, a Commit right after the last of them and a reload from
\* that commit, exactly one document with that id is visible, the one carried
\* last.
C5_Carries(u, j, n) == ResolvableId(schema, u.docs[j]) /\ IdValues(u.docs[j])[1].n = n

C5_EarlierUpdate(q, j, n) ==
    \/ \E j1 \in 1..(j - 1) : C5_Carries(hist[q].req, j1, n) /\ hist[q].req.docs[j1] # hist[q].req.docs[j]
    \/ \E p \in 1..(q - 1) : /\ hist[p].req.type = "Update"
                             /\ \E j1 \in 1..Len(hist[p].req.docs) :
                                   /\ C5_Carries(hist[p].req, j1, n)
                                   /\ hist[p].req.docs[j1] # hist[q].req.docs[j]

C5_Case(q, j, n) ==
    /\ q < Len(hist) /\ hist[q].req.type = "Update" /\ j \in 1..Len(hist[q].req.docs)
    /\ C5_Carries(hist[q].req, j, n)
    /\ \A j2 \in (j + 1)..Len(hist[q].req.docs) : ~HasTerm(hist[q].req.docs[j2], n)
    /\ C5_EarlierUpdate(q, j, n)
    /\ hist[q + 1].req.type = "Commit" /\ hist[q + 1].ok /\ snapNo = hist[q + 1].req.t

C5_UpsertKeepsLast ==
    \A q \in 1..Len(hist) : \A j \in 1..Len(hist[q].req.docs), n \in 1..Len(NumText) :
        C5_Case(q, j, n) => WithTerm(snapshot, n) = <<Entry(hist[q].req.docs[j], hist[q].req.t)>>

C5_Witness ==
    /\ Len(init) = 1 /\ Len(hist) = 3 /\ C5_Case(2, 2, 1)
    /\ hist[1].req.type = "Update" /\ Len(hist[1].req.docs) = 1

\* C6: an Update whose documents have no resolvable id leaves the writer as a
\* Create of the same documents from the same view would: nothing is deleted.
C6_NoSingleId(doc) ==
    ~(/\ "id" \in DOMAIN schema
      /\ Len(SelectSeq(doc, LAMBDA fv : fv.f = "id")) = 1
      /\ \A i \in 1..Len(doc) : doc[i].f = "id" => doc[i].t = "u64")

C6_UpdateWithoutIdIsCreate ==
    (/\ cstate = "Applying" /\ cur.type = "Update"
     /\ \A j \in 1..Len(cur.docs) : j <= idx => C6_NoSingleId(cur.docs[j]))
    => writer = CreateAll(wstart, SubSeq(cur.docs, 1, idx - 1), cur.t)

C6_Witness ==
    /\ Done /\ cur.type = "Update" /\ Len(cur.docs) = 1
    /\ Len(IdValues(cur.docs[1])) = 2
    /\ WithTerm(wstart, 1) # <<>> /\ Len(writer) = Len(wstart) + 1

\* C7: Clear, then Commit, both successful, then a reload from that commit, leave
\* num_docs at 0; and while no Commit has been applied after a Clear, the
\* committed state and the snapshot are those of the commits before the Clear.
C7_CommittedBy(t) == IF t = 0 THEN init ELSE Replay(init, Before(t))

C7_ClearNeedsCommit ==
    /\ \A q \in 1..Len(hist) :
          (/\ q < Len(hist) /\ hist[q].req.type = "Clear" /\ hist[q].ok
           /\ hist[q + 1].req.type = "Commit" /\ hist[q + 1].ok
           /\ snapNo = hist[q + 1].req.t)
          => num_docs = 0
    /\ \A q \in 1..Len(hist) :
          (hist[q].req.type = "Clear" /\ hist[q].ok /\ commitNo < hist[q].req.t)
          => /\ committed = C7_CommittedBy(commitNo)
             /\ snapshot = C7_CommittedBy(snapNo)

C7_Witness ==
    /\ Len(init) = 1 /\ Len(hist) = 3
    /\ hist[1].req.type = "Create"
    /\ hist[2].req.type = "Clear" /\ hist[3].req.type = "Commit"
    /\ snapNo = 3 /\ num_docs = 0

\* C8: an Err of process() does not stop the coordinator: it is Stopped only
\* when every Sender is gone and the channel is empty, it takes the next request
\* whenever it is Idle and one is queued, and the requests after a failed one
\* are applied in their order.
C8_FailureDoesNotStop ==
    /\ cstate = "Stopped" => live = {} /\ queue = <<>>
    /\ (cstate = "Idle" /\ queue # <<>>) => ENABLED Recv
    /\ \A i, j \in 1..Len(hist) : (~hist[i].ok /\ i < j) => hist[j].req.t = hist[i].req.t + (j - i)
    /\ \A i \in 1..Len(hist) : ~hist[i].ok => hist[i].req.type \in {"Commit", "Clear"}

C8_Witness ==
    /\ Len(hist) = 3 /\ cstate = "Idle"
    /\ hist[1].req.type = "Clear" /\ ~hist[1].ok
    /\ hist[2].req.type = "Create" /\ hist[3].req.type = "Commit" /\ hist[3].ok
    /\ Len(committed) = 1

\* C9: a call of add or update whose text does not parse, whose declared
\* conversion fails, or whose record the schema rejects returns Err to its
\* caller and leaves the writer, the committed state and the queue as they were
\* when the call began.
C9_Fails(c) ==
    /\ c.kind \in {"add", "update"}
    /\ \/ c.input.kind = "garbage"
       \/ ConvertAll(c.input.recs, c.config).st # "ok"
       \/ to_docs(ConvertAll(c.input.recs, c.config).data, schema).st # "ok"

C9_BuildErrorsAreReturned ==
    C9_Fails(ucall) =>
        /\ uret = "err" /\ upc = "idle"
        /\ writer = upre.writer /\ committed = upre.committed /\ queue = upre.queue

\* C10: a call on an updater handle is never inside a writer call, and a call
\* that returned Ok has put exactly one request on the queue.
C10_CallsOnlyEnqueue ==
    /\ upc \in {"idle", "panicked"}
    /\ uret = "ok" => Len(queue) = Len(upre.queue) + 1

\* C11: under fair scheduling of the consumer thread, every request the channel
\* accepted is eventually one that process() has returned from, whether or not
\* the requests before it failed and whether or not its senders are dropped.
C11_AcceptedEventuallyApplied ==
    \A t \in 1..MaxReq :
        (sent >= t) ~> (Len(hist) >= t /\ hist[t].req.t = t)

C11_Witness ==
    /\ sent = 3 /\ Len(hist) = 3 /\ queue = <<>> /\ cstate = "Idle"
    /\ ~hist[2].ok /\ hist[3].req.type = "Update"

\* C12: while no Commit has succeeded since the snapshot was loaded, no step
\* changes the snapshot: a second reload leaves it, and num_docs, as the first
\* left them, whatever was sent or applied in between.
C12_ReloadIdempotent ==
    [][(commitNo = snapNo) => (snapshot' = snapshot /\ num_docs' = num_docs)]_vars

C12_Witness ==
    /\ Len(hist) = 3 /\ hist[1].req.type = "Create" /\ hist[2].req.type = "Commit"
    /\ hist[3].req.type = "Clear" /\ hist[3].ok
    /\ snapNo = 2 /\ commitNo = 2 /\ snapshot = committed /\ writer # committed
    /\ ENABLED reload

\* C13: after a Create of at least one document and a later Commit of the same
\* handle, num_docs becomes greater than 0 by the reader's own reload, unless
\* that writer.commit() returned Err or a Clear is sent as well; and the
\* documents the snapshot shows carry the ids that were submitted, an id given
\* as a string and declared String to Number included.
C13_Accepted ==
    [i \in 1..Len(hist) |-> hist[i].req]
        \o (IF cstate = "Applying" THEN <<cur>> ELSE <<>>) \o queue

C13_Case(t) ==
    /\ sent >= t /\ C13_Accepted[t].type = "Commit"
    /\ \E c \in 1..(t - 1) : /\ C13_Accepted[c].type = "Create"
                             /\ C13_Accepted[c].h = C13_Accepted[t].h
                             /\ Len(C13_Accepted[c].docs) >= 1

C13_Cleared == \E c \in 1..sent : C13_Accepted[c].type = "Clear"

C13_IdOf(rec) == IF rec.id.k = "num" THEN rec.id.n ELSE parse(rec.id.s)

C13_IdsAsSubmitted ==
    env.adds # {} =>
        \A i \in 1..Len(snapshot) :
            snapshot[i].src # 0 =>
                \E a \in env.adds : \E j \in 1..Len(a.input.recs) :
                    snapshot[i].doc = <<U64("id", C13_IdOf(a.input.recs[j])),
                                        Text("title", a.input.recs[j].title.s)>>

C14_Case ==
    /\ npc \in {"new", "panicked"} /\ ntext.kind = "array" /\ ncfg.mapping = <<>>
    /\ \E i \in 1..Len(ntext.recs) : \E j \in 1..Len(ncfg.conversion) :
          LET c == ncfg.conversion[j]
              rec == ntext.recs[i]
          IN  /\ c.from = "String" /\ c.to = "Number" /\ c.k \in DOMAIN rec
              /\ rec[c.k].k = "str"
              /\ \A n \in 1..Len(NumText) : NumText[n] # rec[c.k].s

C14_ConversionErrorIsReturned ==
    C14_Case => (nres.st = "err" /\ npc = "new")

\* C15: when JsonObjects::new returns records and a declared conversion does not
\* match the value a record holds under its field, the record returned still
\* holds that field with the value it had, and its other fields are unchanged.
C15_Mismatch(v, c) ==
    /\ ~(v.k = "num" /\ c.from = "Number" /\ c.to = "String")
    /\ ~(v.k = "str" /\ c.from = "String" /\ c.to = "Number")

C15_MismatchIsNoOp ==
    (npc = "new" /\ nres.st = "ok" /\ ncfg.mapping = <<>> /\ Len(ncfg.conversion) = 1) =>
        \A i \in 1..Len(nres.data) :
            LET c == ncfg.conversion[1]
                rec == ntext.recs[i]
            IN  (c.k \in DOMAIN rec /\ C15_Mismatch(rec[c.k], c)) => nres.data[i] = rec

\* C16: with one mapping pair a to b and a Number to String conversion declared
\* for b, a record that holds a number under a comes back without a, with the
\* decimal string of that number under b, and with its other fields as they
\* were.
C16_Case(i) ==
    /\ npc = "new" /\ nres.st = "ok" /\ i \in 1..Len(ntext.recs)
    /\ Len(ncfg.mapping) = 1 /\ ncfg.mapping[1][1] # ncfg.mapping[1][2]
    /\ \E j \in 1..Len(ncfg.conversion) :
          ncfg.conversion[j] = [k |-> ncfg.mapping[1][2], from |-> "Number", to |-> "String"]
    /\ ncfg.mapping[1][1] \in DOMAIN ntext.recs[i]
    /\ ntext.recs[i][ncfg.mapping[1][1]].k = "num"

C16_MapThenConvert ==
    \A i \in 1..Len(ntext.recs) :
        C16_Case(i) =>
            LET a == ncfg.mapping[1][1]
                b == ncfg.mapping[1][2]
                rec == ntext.recs[i]
                out == nres.data[i]
            IN  /\ a \notin DOMAIN out /\ b \in DOMAIN out
                /\ out[b] = [k |-> "str", s |-> NumText[rec[a].n], n |-> 0, a |-> <<>>]
                /\ \A f \in (DOMAIN rec) \ {a, b} : f \in DOMAIN out /\ out[f] = rec[f]
                /\ DOMAIN out = ((DOMAIN rec) \ {a}) \cup {b}

C16_Witness ==
    /\ C16_Case(1) /\ ntext.recs = <<rD>>
    /\ nres.data = <<[id |-> JStr("3"), title |-> JStr("a")]>>

\* C17: when JsonObjects::new returns records for a text that is an array of N
\* records, it returns N records; the i-th is what the mapping and conversion
\* make of the i-th record of the text, and it keeps, unchanged, every field of
\* that record that no mapping pair and no conversion names.
C17_Named ==
    {ncfg.mapping[j][1] : j \in 1..Len(ncfg.mapping)}
        \cup {ncfg.mapping[j][2] : j \in 1..Len(ncfg.mapping)}
        \cup {ncfg.conversion[j].k : j \in 1..Len(ncfg.conversion)}

C17_OneRecordPerRecord ==
    (npc \in {"new", "docs"} /\ nres.st = "ok" /\ ntext.kind = "array") =>
        /\ Len(nres.data) = Len(ntext.recs)
        /\ \A i \in 1..Len(ntext.recs) :
              /\ nres.data[i] = convert(ntext.recs[i], ncfg).obj
              /\ \A f \in (DOMAIN ntext.recs[i]) \ C17_Named :
                    f \in DOMAIN nres.data[i] /\ nres.data[i][f] = ntext.recs[i][f]

C17_Witness ==
    /\ npc = "new" /\ nres.st = "ok" /\ ntext.recs = <<rT, rA, rX>>
    /\ ncfg.conversion = <<Conv("id", "Number", "String")>>
    /\ Len(nres.data) = 3
    /\ nres.data[1].id = JStr("2") /\ nres.data[2].id = JStr("1")
    /\ nres.data[3].title = JStr("a")

\* C18: with no conversion declared, a text of any length that is one record
\* object and no array comes back as exactly one record, and a text that is
\* neither comes back as an Err: the failure of the array stage alone never
\* fails the call, and a text shorter than the quoted prefix fares as a longer
\* one.
C18_TwoStageParse ==
    (npc \in {"new", "panicked"} /\ ncfg.conversion = <<>>) =>
        /\ ntext.kind = "object" =>
              /\ npc = "new" /\ nres.st = "ok" /\ Len(nres.data) = 1
              /\ nres.data[1] = FoldMap(ntext.recs[1], ncfg.mapping)
        /\ ntext.kind = "garbage" => (npc = "new" /\ nres.st = "err")

\* C19: two calls of JsonObjects::new on the same text, each with an InputConfig
\* built from the same mapping and conversion tables, return the same records,
\* also when the mapping pairs chain or collide.
C19_SameTablesSameRecords ==
    (npc \in {"new", "docs"} /\ nprev # NoRun /\ nprev.tab = ntab /\ nprev.text = ntext) =>
        nres = nprev.res

\* C20: to_docs returns an Err that names a failing field, and no document, as
\* soon as one record has a field the schema does not declare or a value the
\* declared type cannot take; otherwise it returns one document per record, in
\* order, holding exactly one value per scalar field and one per array element,
\* each with the content of the record.
C20_Coercible(ftype, jv) ==
    \/ ftype = "u64" /\ jv.k = "num"
    \/ ftype = "text" /\ jv.k = "str"

C20_Elems(jv) == IF jv.k = "arr" THEN jv.a ELSE <<jv>>

C20_BadField(rec, f) ==
    \/ f \notin DOMAIN schema
    \/ \E i \in 1..Len(C20_Elems(rec[f])) : ~C20_Coercible(schema[f], C20_Elems(rec[f])[i])

C20_Under(doc, f) == SelectSeq(doc, LAMBDA fv : fv.f = f)

C20_Complete(doc, rec) ==
    /\ \A i \in 1..Len(doc) : doc[i].f \in DOMAIN rec
    /\ \A f \in DOMAIN rec :
          /\ Len(C20_Under(doc, f)) = Len(C20_Elems(rec[f]))
          /\ \A i \in 1..Len(C20_Elems(rec[f])) :
                IF schema[f] = "u64"
                THEN C20_Under(doc, f)[i].t = "u64" /\ C20_Under(doc, f)[i].n = C20_Elems(rec[f])[i].n
                ELSE C20_Under(doc, f)[i].t = "str" /\ C20_Under(doc, f)[i].s = C20_Elems(rec[f])[i].s

C20_AllOrNothing ==
    npc = "docs" =>
        IF \E i \in 1..Len(nres.data) : \E f \in DOMAIN nres.data[i] : C20_BadField(nres.data[i], f)
        THEN /\ ndocs.st = "err" /\ ndocs.docs = <<>>
             /\ \E i \in 1..Len(nres.data) :
                   ndocs.field \in DOMAIN nres.data[i] /\ C20_BadField(nres.data[i], ndocs.field)
        ELSE /\ ndocs.st = "ok" /\ Len(ndocs.docs) = Len(nres.data)
             /\ \A i \in 1..Len(nres.data) : C20_Complete(ndocs.docs[i], nres.data[i])

C20_Witness ==
    /\ npc = "docs" /\ ndocs.st = "err" /\ ndocs.docs = <<>> /\ ndocs.field = "id"
    /\ Len(nres.data) = 3
    /\ \A f \in DOMAIN nres.data[1] : ~C20_BadField(nres.data[1], f)
    /\ C20_BadField(nres.data[3], "id")

\* C21: a call of search with field names the schema does not declare returns
\* what the call with those names left out returns, so it fails only if the
\* query text is malformed or no declared name is left; its hits are at most
\* limit, they are the entries offset+1, offset+2, ... of the ranking of the
\* reader's snapshot, and none comes from the writer's view or a newer commit.
C21_Declared(fields) == SelectSeq(fields, LAMBDA f : f \in DOMAIN schema)

C21_Hit(e, term, fields) ==
    \E i \in 1..Len(e.doc) : \E j \in 1..Len(C21_Declared(fields)) :
        e.doc[i].f = C21_Declared(fields)[j] /\ e.doc[i].t = "str" /\ e.doc[i].s = term

C21_Ranked(term, fields) == SelectSeq(snapshot, LAMBDA e : C21_Hit(e, term, fields))

C21_Result(query, fields, limit, offset) ==
    IF query.kind = "malformed" \/ C21_Declared(fields) = <<>>
    THEN sres'.st = "err"
    ELSE /\ sres'.st = "ok"
         /\ Len(sres'.hits) <= limit
         /\ \A i \in 1..Len(sres'.hits) :
               /\ offset + i <= Len(C21_Ranked(query.term, fields))
               /\ sres'.hits[i] = C21_Ranked(query.term, fields)[offset + i]
         /\ \/ Len(sres'.hits) = limit
            \/ offset + Len(sres'.hits) >= Len(C21_Ranked(query.term, fields))

C22_OwnSteps ==
    LET done == SubSeq(cur.docs, 1, idx - 1)
    IN  IF cur.type = "Create" THEN CreateAll(wstart, done, cur.t)
        ELSE IF phase = "insert"
             THEN SelectSeq(UpdateAll(wstart, done, cur.t),
                            LAMBDA e : ~HasTerm(e.doc, IdValues(cur.docs[idx])[1].n))
             ELSE UpdateAll(wstart, done, cur.t)

C22_InRequest == cstate = "Applying" /\ cur.type \in {"Create", "Update"}

C22_NoInterleaving ==
    /\ [](C22_InRequest => writer = C22_OwnSteps)
    /\ [][C22_InRequest =>
            /\ committed' = committed
            /\ \/ cur' = cur /\ cstate' = "Applying"
               \/ idx > Len(cur.docs) /\ cur' = NoReq]_vars

C22_Witness ==
    /\ cstate = "Applying" /\ cur.type = "Update" /\ phase = "insert"
    /\ WithTerm(wstart, 1) # <<>> /\ WithTerm(writer, 1) = <<>>
    /\ queue # <<>> /\ queue[1].type = "Commit" /\ queue[1].h # cur.h

\* C23: every call made on a handle that does not fail on its input puts one
\* request on the one queue of the Indexer and leaves the writer alone: the
\* writer is reached through the one consumer only, however many handles
\* there are.
C23_HandlesShareOneQueue ==
    [][/\ ((ucalls' # ucalls /\ uret' \notin {"err", "panic"}) \/ hcount' # hcount) =>
            (Len(queue') = Len(queue) + 1 /\ writer' = writer /\ committed' = committed)
       /\ (writer' # writer \/ committed' # committed) =>
            (cstate = "Applying" /\ upc = "idle" /\ upc' = "idle")]_vars

\* C24: the reader's snapshot is always a commit point: the content at open
\* time, or what the requests applied before one successful Commit (the one
\* whose writer.commit() has just returned included), each applied whole and
\* in order, made of it. It shows nothing of a request that no applied Commit
\* covers and nothing of a request in progress.
C24_Applied ==
    hist \o (IF cstate = "Applying" /\ cur.type = "Commit" /\ idx = 2 /\ res = "ok"
             THEN <<[req |-> cur, ok |-> TRUE]>> ELSE <<>>)

C24_Commits == {j \in 1..Len(C24_Applied) : C24_Applied[j].req.type = "Commit" /\ C24_Applied[j].ok}

C24_CommitPoints ==
    {init} \cup {Replay(init, SubSeq(C24_Applied, 1, i - 1)) : i \in C24_Commits}

C24_SnapshotIsCommitPoint ==
    /\ snapshot \in C24_CommitPoints
    /\ \A i \in 1..Len(snapshot) :
          snapshot[i].src # 0 => \E c \in C24_Commits : snapshot[i].src < C24_Applied[c].req.t
    /\ cstate = "Applying" => \A i \in 1..Len(snapshot) : snapshot[i].src # cur.t

C24_Witness ==
    /\ cstate = "Applying" /\ cur.type = "Update" /\ phase = "insert"
    /\ writer = <<>> /\ Len(snapshot) = 1 /\ snapshot[1].src = 1 /\ init = <<>>

\* C25: the coordinator is Stopped only when the Indexer and every handle are
\* dropped and the queue is empty; while one of them is alive it is Idle or
\* Applying; and when it is Stopped every request that was accepted, those
\* still queued at the last drop included, has been applied, in order.
C25_StopsOnlyWhenDrained ==
    /\ live # {} => cstate \in {"Idle", "Applying"}
    /\ cstate = "Stopped" =>
          /\ live = {} /\ queue = <<>> /\ cur = NoReq
          /\ Len(hist) = sent
          /\ \A i \in 1..Len(hist) : hist[i].req.t = i
    /\ ENABLED Stop => (live = {} /\ queue = <<>>)

C25_Witness ==
    /\ cstate = "Stopped" /\ Len(hist) = 3
    /\ hist[1].req.h # hist[2].req.h
    /\ hist[2].req.type = "Clear" /\ hist[3].req.type = "Commit" /\ committed = <<>>

====
